---- MODULE Spec2Model ----
(***************************************************************************)
(* Model of scripts/create-config.js: the build script that reads the      *)
(* documentation manifest, runs the documentation extractor over every     *)
(* package through a d3-queue of concurrency 1, normalises the metadata    *)
(* into the module tree and writes the tree to config.json.                *)
(*                                                                         *)
(* JavaScript strings are sequences of one-character strings, so that      *)
(* split, indexOf, replace, join and toUpperCase are computed and not      *)
(* assumed.  JavaScript values of mixed type are tagged records:           *)
(*   false -> [t |-> "false"], null -> [t |-> "null"],                     *)
(*   undefined -> [t |-> "undefined"], a string -> [t |-> "str", s |-> _], *)
(*   an array -> [t |-> "arr", a |-> _], a thrown TypeError ->             *)
(*   [t |-> "TypeError"].                                                  *)
(***************************************************************************)
EXTENDS Integers, Sequences, FiniteSets, TLC

VARIABLES
    pc,        \* where the script is: "idle", "toc", "defer", "await", "paths", "loop", "crashed"
    toc,       \* docs.toc, the manifest's table of contents
    tocIdx,    \* number of toc items docs.toc.forEach has consumed
    modules,   \* the modules array (groups of module entries)
    paths,     \* docs.paths
    nPkgs,     \* packagesPath.length
    deferIdx,  \* number of packages packagesPath.forEach has deferred
    q,         \* the d3-queue: its tasks' states and its counters
    docsOf,    \* per package, the metadata list documentation.formats.json gave
    config,    \* what write.sync has put at configPath
    writes,    \* how many times write.sync was called
    metadata,  \* the metadata entry handed to a normaliser function
    out        \* what the normaliser function returned

vars == <<pc, toc, tocIdx, modules, paths, nPkgs, deferIdx, q, docsOf, config, writes, metadata, out>>

----------------------------------------------------------------------------
(* JavaScript values *)

JSFalse == [t |-> "false"]
JSNull == [t |-> "null"]
JSUndefined == [t |-> "undefined"]
TypeError == [t |-> "TypeError"]
Str(s) == [t |-> "str", s |-> s]
Arr(a) == [t |-> "arr", a |-> a]

----------------------------------------------------------------------------
(* String primitives of the JavaScript runtime, on sequences of characters *)

RECURSIVE Cat(_)
Cat(ss) == IF ss = <<>> THEN <<>> ELSE Head(ss) \o Cat(Tail(ss))

\* String.prototype.indexOf(pat): the 0-based index of the first occurrence, -1 if none
IndexOf(s, pat) ==
    LET hits == {i \in 1..(Len(s) - Len(pat) + 1) : SubSeq(s, i, i + Len(pat) - 1) = pat}
    IN IF hits = {} THEN -1 ELSE (CHOOSE i \in hits : \A j \in hits : i <= j) - 1

\* String.prototype.replace(pat, rep) with a string pattern: the first occurrence only
Replace(s, pat, rep) ==
    LET i == IndexOf(s, pat)
    IN IF i = -1 THEN s
       ELSE SubSeq(s, 1, i) \o rep \o SubSeq(s, i + Len(pat) + 1, Len(s))

\* String.prototype.split(pat)[0]: the text before the first match, all of it if none
SplitFirst(s, pat) ==
    LET i == IndexOf(s, pat)
    IN IF i = -1 THEN s ELSE SubSeq(s, 1, i)

\* Array.prototype.join(sep) on an array of strings
RECURSIVE Join(_, _)
Join(ss, sep) ==
    IF ss = <<>> THEN <<>>
    ELSE IF Len(ss) = 1 THEN Head(ss)
    ELSE Head(ss) \o sep \o Join(Tail(ss), sep)

LowerLetters == <<"a","b","c","d","e","f","g","h","i","j","k","l","m",
                  "n","o","p","q","r","s","t","u","v","w","x","y","z">>
UpperLetters == <<"A","B","C","D","E","F","G","H","I","J","K","L","M",
                  "N","O","P","Q","R","S","T","U","V","W","X","Y","Z">>

UpperChar(c) ==
    IF \E i \in 1..26 : LowerLetters[i] = c
    THEN UpperLetters[CHOOSE i \in 1..26 : LowerLetters[i] = c]
    ELSE c

\* String.prototype.toUpperCase
ToUpperCase(s) == [i \in 1..Len(s) |-> UpperChar(s[i])]

----------------------------------------------------------------------------
(* String literals of the script *)

sAddToMap == <<"/","/","a","d","d","T","o","M","a","p">>
sNlAddToMap == <<"\n">> \o sAddToMap

sSpace == <<" ">>
sSpaceDot == <<" ", ".">>
sDot == <<".">>
sOptionalParameters == <<"O","p","t","i","o","n","a","l"," ","p","a","r","a","m","e","t","e","r","s">>
sSeeBelow == <<":"," ","s","e","e"," ","b","e","l","o","w">>
sAnchorOpen == <<"<","a"," ","t","a","r","g","e","t","=","\"","_","b","l","a","n","k","\""," ","h","r","e","f","=","\"">>
sAnchorMid == <<"\"",">">>
sAnchorClose == <<"<","/","a",">">>
sParenOpen == <<"(">>
sParenClose == <<")">>
sPipe == <<" ","|"," ">>
sOptionalColon == <<"O","p","t","i","o","n","a","l",":"," ">>
sSpaceLt == <<" ","<">>
sGt == <<">">>
sComma == <<",">>
sOptions == <<"o","p","t","i","o","n","s">>
sOptionsDot == sOptions \o <<".">>
sBackslash == <<"\\">>

----------------------------------------------------------------------------
(* Links: getLink, createLink *)

\* docs.paths[name.toUpperCase()] || null
getLink(name) ==
    LET key == ToUpperCase(name)
    IN IF key \in DOMAIN paths /\ paths[key] # <<>> THEN Str(paths[key]) ELSE JSNull

\* the name as it is, or wrapped in an anchor when a link is asked for and known
createLink(name, addLink) ==
    LET link == getLink(name)
    IN IF ~addLink \/ link = JSNull THEN name
       ELSE sAnchorOpen \o link.s \o sAnchorMid \o name \o sAnchorClose

----------------------------------------------------------------------------
(* Type rendering: getType.                                                *)
(* A type node is a record with a type tag ("object" when node.type is     *)
(* itself an object) and the fields of its kind: name; elements;           *)
(* expression; expression and applications.  An absent node is             *)
(* JSUndefined.  Nodes given a name wherever the script reads one.         *)

\* what Array.prototype.join and string concatenation make of an element
AsText(v) == IF v.t = "str" THEN v.s ELSE <<>>

RECURSIVE getType(_, _)
getType(inNode, addLink) ==
    IF inNode = JSUndefined THEN JSFalse
    ELSE IF inNode.type = "UnionType"
    THEN Str(sParenOpen
             \o Join([i \in 1..Len(inNode.elements) |->
                        AsText(getType(inNode.elements[i], addLink))], sPipe)
             \o sParenClose)
    ELSE IF inNode.type = "OptionalType" THEN Str(sOptionalColon \o inNode.expression.name)
    ELSE IF inNode.type = "object" THEN Str(createLink(inNode.name, addLink))
    ELSE IF inNode.type = "NameExpression" THEN Str(createLink(inNode.name, addLink))
    ELSE IF inNode.type = "TypeApplication"
    THEN Str(inNode.expression.name \o sSpaceLt
             \o Join([i \in 1..Len(inNode.applications) |->
                        LET node == inNode.applications[i]
                        IN IF node.type = "UnionType"
                           THEN sParenOpen
                                \o Join([k \in 1..Len(node.elements) |->
                                           AsText(getType(node.elements[k], addLink))], sPipe)
                                \o sParenClose
                           ELSE IF node.type = "TypeApplication"
                           THEN AsText(getType(node, addLink))
                           ELSE createLink(node.name, addLink)], sComma)
             \o sGt)
    ELSE JSUndefined

----------------------------------------------------------------------------
(* Description rendering: concatTags, getDescription.                      *)
(* A text node is [value |-> s]; a link node is                            *)
(* [children |-> <<[value |-> s]>>, url |-> s, jsdoc |-> BOOLEAN].         *)

concatTags(inNode, addLink) ==
    IF inNode = JSUndefined THEN JSFalse
    ELSE
      LET outDescr == [i \in 1..Len(inNode.a) |->
                         LET node == inNode.a[i]
                         IN IF "children" \in DOMAIN node
                            THEN IF ~addLink THEN node.children[1].value
                                 ELSE LET found == getLink(node.children[1].value)
                                          link == IF found = JSNull \/ ~node.jsdoc
                                                  THEN node.url ELSE found.s
                                      IN sAnchorOpen \o link \o sAnchorMid
                                         \o node.children[1].value \o sAnchorClose
                            ELSE node.value]
          joined == Replace(Join(outDescr, sSpace), sSpaceDot, sDot)
      IN Str(IF joined = sOptionalParameters THEN joined \o sSeeBelow ELSE joined)

\* block.children of a description's block, undefined when the block has none
ChildrenOf(block) == IF "children" \in DOMAIN block THEN Arr(block.children) ELSE JSUndefined

\* metadata.description.children[0].children read off an empty description throws
getDescription(md) ==
    IF md.description.children = <<>> THEN TypeError
    ELSE concatTags(ChildrenOf(md.description.children[1]), TRUE)

----------------------------------------------------------------------------
(* Returns and throws: getReturns, getThrows *)

ResultEntry(result) ==
    IF result.description.children = <<>> THEN JSFalse
    ELSE [type |-> getType(result.type, FALSE),
          desc |-> concatTags(ChildrenOf(result.description.children[1]), FALSE)]

getReturns(md) ==
    IF md.returns = JSUndefined THEN JSFalse
    ELSE Arr([i \in 1..Len(md.returns.a) |-> ResultEntry(md.returns.a[i])])

getThrows(md) ==
    IF md.throws = JSUndefined THEN JSFalse
    ELSE Arr([i \in 1..Len(md.throws.a) |-> ResultEntry(md.throws.a[i])])

----------------------------------------------------------------------------
(* Array.prototype.sort under the comparator of getParams.                 *)
(* An entry that is false has no _lineNum, the difference is NaN and the   *)
(* comparator is not a consistent one: the order is then what the engine's *)
(* algorithm makes of it.  Node's two algorithms for short arrays are      *)
(* modelled: the insertion sort of V8 before 7.0 and the run detection     *)
(* plus binary insertion of V8's TimSort since.                            *)

HasLineNum(e) == "_lineNum" \in DOMAIN e

\* a._lineNum - b._lineNum is a number: neither side is NaN
Comparable(a, b) == HasLineNum(a) /\ HasLineNum(b)

\* comparefn(a, b) > 0
CmpGreater(a, b) == Comparable(a, b) /\ a._lineNum - b._lineNum > 0

\* comparefn(a, b) < 0
CmpLess(a, b) == Comparable(a, b) /\ a._lineNum - b._lineNum < 0

\* element moved from position i leftwards past every neighbour that compares greater
RECURSIVE InsertLeft(_, _)
InsertLeft(a, j) ==
    IF j >= 2 /\ CmpGreater(a[j - 1], a[j])
    THEN InsertLeft([a EXCEPT ![j - 1] = a[j], ![j] = a[j - 1]], j - 1)
    ELSE a

RECURSIVE InsertionSortFrom(_, _)
InsertionSortFrom(a, i) ==
    IF i > Len(a) THEN a ELSE InsertionSortFrom(InsertLeft(a, i), i + 1)

InsertionSort(a) == InsertionSortFrom(a, 2)

\* length of the run that starts the array: ascending, or strictly descending
RECURSIVE RunEnd(_, _, _)
RunEnd(a, idx, descending) ==
    IF idx > Len(a) THEN Len(a)
    ELSE IF descending /\ ~CmpLess(a[idx], a[idx - 1]) THEN idx - 1
    ELSE IF ~descending /\ CmpLess(a[idx], a[idx - 1]) THEN idx - 1
    ELSE RunEnd(a, idx + 1, descending)

Reverse(a) == [i \in 1..Len(a) |-> a[Len(a) + 1 - i]]

\* binary search of the place of pivot in a[left..right-1]
RECURSIVE BinaryPlace(_, _, _, _)
BinaryPlace(a, pivot, left, right) ==
    IF left >= right THEN left
    ELSE LET mid == left + ((right - left) \div 2)
         IN IF CmpLess(pivot, a[mid])
            THEN BinaryPlace(a, pivot, left, mid)
            ELSE BinaryPlace(a, pivot, mid + 1, right)

RECURSIVE BinaryInsertionSort(_, _)
BinaryInsertionSort(a, start) ==
    IF start > Len(a) THEN a
    ELSE LET left == BinaryPlace(a, a[start], 1, start)
             moved == [i \in 1..Len(a) |->
                         IF i < left \/ i > start THEN a[i]
                         ELSE IF i = left THEN a[start]
                         ELSE a[i - 1]]
         IN BinaryInsertionSort(moved, start + 1)

TimSort(a) ==
    IF Len(a) < 2 THEN a
    ELSE LET descending == CmpLess(a[2], a[1])
             run == RunEnd(a, 3, descending)
             made == IF descending
                     THEN Reverse(SubSeq(a, 1, run)) \o SubSeq(a, run + 1, Len(a))
                     ELSE a
         IN BinaryInsertionSort(made, run + 1)

\* the arrays outParams.sort(...) can leave
SortOutcomes(a) == {InsertionSort(a), TimSort(a)}

----------------------------------------------------------------------------
(* Parameters: getParams *)

ParamEntry(param) ==
    IF param.type = JSUndefined THEN [type |-> JSNull]
    ELSE IF param.description.children = <<>> THEN JSFalse
    ELSE [Argument |-> Str(param.name),
          Type |-> getType(param.type, TRUE),
          Description |-> concatTags(ChildrenOf(param.description.children[1]), FALSE),
          _lineNum |-> param.lineNumber]

\* outParams.filter(param => param.type !== null)
TypeIsNull(e) == "type" \in DOMAIN e /\ e.type = JSNull

RECURSIVE FilterTyped(_)
FilterTyped(es) ==
    IF es = <<>> THEN <<>>
    ELSE IF TypeIsNull(Head(es)) THEN FilterTyped(Tail(es))
    ELSE <<Head(es)>> \o FilterTyped(Tail(es))

\* delete param._lineNum
StripLineNum(e) ==
    IF HasLineNum(e) THEN [f \in DOMAIN e \ {"_lineNum"} |-> e[f]] ELSE e

\* the values getParams can return
getParams(md) ==
    IF md.params = JSUndefined THEN {JSFalse}
    ELSE LET outParams == FilterTyped([i \in 1..Len(md.params.a) |-> ParamEntry(md.params.a[i])])
         IN {Arr([i \in 1..Len(finalOut) |-> StripLineNum(finalOut[i])]) :
               finalOut \in SortOutcomes(outParams)}

----------------------------------------------------------------------------
(* Options: getOptions *)

\* OptionEntry as it would be with the quotes of the default stripped as well
OptionEntryUnquoted(prop) ==
    [Prop |-> Str(Replace(prop.name, sOptionsDot, <<>>)),
     Type |-> getType(prop.type, FALSE),
     Default |-> IF prop.default # JSUndefined /\ prop.default.s # <<>>
                 THEN Str(SelectSeq(Replace(prop.default.s, sBackslash, <<>>),
                                    LAMBDA c : c # "'"))
                 ELSE JSNull,
     Description |-> concatTags(ChildrenOf(prop.description.children[1]), FALSE)]

OptionEntry(prop) ==
    [Prop |-> Str(Replace(prop.name, sOptionsDot, <<>>)),
     Type |-> getType(prop.type, FALSE),
     Default |-> IF prop.default # JSUndefined /\ prop.default.s # <<>>
                 THEN Str(Replace(prop.default.s, sBackslash, <<>>))
                 ELSE JSNull,
     Description |-> concatTags(ChildrenOf(prop.description.children[1]), FALSE)]

\* the metadata.params entries named "options"
RECURSIVE NamedOptions(_)
NamedOptions(ps) ==
    IF ps = <<>> THEN <<>>
    ELSE IF Head(ps).name = sOptions THEN <<Head(ps)>> \o NamedOptions(Tail(ps))
    ELSE NamedOptions(Tail(ps))

\* TypeError when options[0] has no properties or a property has an empty description
getOptions(md) ==
    IF md.params = JSUndefined THEN JSFalse
    ELSE LET options == NamedOptions(md.params.a)
         IN IF Len(options) = 0 THEN JSNull
            ELSE IF "properties" \notin DOMAIN options[1] THEN TypeError
            ELSE LET props == options[1].properties
                 IN IF \E i \in 1..Len(props) : props[i].description.children = <<>>
                    THEN TypeError
                    ELSE Arr([i \in 1..Len(props) |-> OptionEntry(props[i])])

----------------------------------------------------------------------------
(* Examples: getSnippet, getExample, hasMap *)

\* metadata.examples[0], undefined when the array is empty
FirstExample(md) == IF md.examples = <<>> THEN JSUndefined ELSE md.examples[1]

\* getSnippet as it would be with the marker searched without its leading newline
getSnippetAtMarker(md) ==
    LET example == FirstExample(md)
    IN IF example # JSUndefined
       THEN Str(SplitFirst(example.description, sAddToMap))
       ELSE JSFalse

getSnippet(md) ==
    LET example == FirstExample(md)
    IN IF example # JSUndefined
       THEN Str(SplitFirst(example.description, sNlAddToMap))
       ELSE JSFalse

getExample(md) ==
    LET example == FirstExample(md)
    IN IF example # JSUndefined THEN Str(example.description) ELSE JSFalse

hasMap(md) ==
    LET example == FirstExample(md)
    IN IF example # JSUndefined
       THEN IndexOf(example.description, sAddToMap) # -1
       ELSE FALSE

----------------------------------------------------------------------------
(* The manifest's paths, and lines 213-215 that add every key in upper case *)

sFeature == <<"F","e","a","t","u","r","e">>
sNumber == <<"N","u","m","b","e","r">>
sFeatureUrl == <<"#","f">>

ManifestPaths == [k \in {sFeature} |-> sFeatureUrl]

UpperPaths(p) ==
    [k \in DOMAIN p \cup {ToUpperCase(n) : n \in DOMAIN p} |->
        IF \E n \in DOMAIN p : ToUpperCase(n) = k
        THEN p[CHOOSE n \in DOMAIN p : ToUpperCase(n) = k]
        ELSE p[k]]

----------------------------------------------------------------------------
(* The queue before any task is deferred: d3.queue(1) *)

QueueInit == [tasks |-> <<>>, waiting |-> 0, active |-> 0, ended |-> 0, call |-> FALSE]

\* the script's state while one normaliser function is exercised on its own
ScriptAtRest ==
    /\ toc = <<>>
    /\ tocIdx = 0
    /\ modules = <<>>
    /\ paths = UpperPaths(ManifestPaths)
    /\ nPkgs = 0
    /\ deferIdx = 0
    /\ q = QueueInit
    /\ docsOf = <<>>
    /\ config = JSUndefined
    /\ writes = 0

ScriptUnchanged ==
    UNCHANGED <<toc, tocIdx, modules, paths, nPkgs, deferIdx, q, docsOf, config, writes>>

----------------------------------------------------------------------------
(* getSnippet, getExample and hasMap on example texts *)

MaxFrags == 4

sFoo == <<"f","o","o">>
sNl == <<"\n">>
sNlBar == <<"\n","b","a","r">>
Fragments == {sFoo, sNl, sAddToMap, sNlBar}

ExampleTexts == {Cat(fs) : fs \in UNION {[1..n -> Fragments] : n \in 0..MaxFrags}}

ExampleInputs ==
    {[examples |-> <<>>]} \cup {[examples |-> <<[description |-> x]>>] : x \in ExampleTexts}

ExampleInit ==
    /\ pc = "call"
    /\ metadata \in ExampleInputs
    /\ out = JSUndefined
    /\ ScriptAtRest

NormalizeExample ==
    /\ pc = "call"
    /\ pc' = "returned"
    /\ out' = [snippet |-> getSnippet(metadata),
               example |-> getExample(metadata),
               hasMap |-> hasMap(metadata)]
    /\ UNCHANGED metadata
    /\ ScriptUnchanged

ExampleSpec == ExampleInit /\ [][NormalizeExample]_vars

\* the example text of the specification: "foo\n//addToMap\nbar"
sFooMapBar == sFoo \o sNl \o sAddToMap \o sNlBar

OccursAt(text, k, pat) ==
    k + Len(pat) - 1 <= Len(text) /\ SubSeq(text, k, k + Len(pat) - 1) = pat

Contains(text, pat) == \E k \in 1..Len(text) : OccursAt(text, k, pat)

\* C5 as stated: snippet is the example text cut at the marker //addToMap (all of
\* it when the marker is absent), hasMap is true iff the text contains the marker,
\* "foo\n//addToMap\nbar" gives snippet "foo\n" and hasMap true, and hasMap is true
\* exactly when the snippet differs from the example.
C5_AsStated ==
    (pc = "returned" /\ "snippet" \in DOMAIN out /\ metadata.examples # <<>>) =>
        LET text == metadata.examples[1].description
            i == IndexOf(text, sAddToMap)
        IN /\ out.snippet = Str(IF i = -1 THEN text ELSE SubSeq(text, 1, i))
           /\ out.hasMap = (i # -1)
           /\ (text = sFooMapBar => out.snippet = Str(sFoo \o sNl) /\ out.hasMap)
           /\ (out.hasMap <=> out.snippet # out.example)

\* C5 amended: snippet is the example text cut before the first newline that is
\* directly followed by //addToMap, that newline left out (all of the text when no
\* newline is followed by the marker); hasMap is true iff the text contains
\* //addToMap anywhere; "foo\n//addToMap\nbar" gives snippet "foo" and hasMap true;
\* a snippet that differs from the example implies hasMap, not the converse;
\* without an example snippet and example are false and hasMap is false.
C5_SnippetCutsBeforeNewlineMarker ==
    (pc = "returned" /\ "snippet" \in DOMAIN out) =>
        IF metadata.examples = <<>>
        THEN out.snippet = JSFalse /\ out.example = JSFalse /\ out.hasMap = FALSE
        ELSE LET text == metadata.examples[1].description
                 n == Len(out.snippet.s)
             IN /\ out.example = Str(text)
                /\ out.snippet.t = "str"
                /\ n <= Len(text)
                /\ out.snippet.s = SubSeq(text, 1, n)
                /\ (n = Len(text) \/ OccursAt(text, n + 1, sNlAddToMap))
                /\ \A k \in 1..n : ~OccursAt(text, k, sNlAddToMap)
                /\ (out.hasMap <=> Contains(text, sAddToMap))
                /\ (text = sFooMapBar => out.snippet = Str(sFoo) /\ out.hasMap)
                /\ (out.snippet # out.example => out.hasMap)

\* C5 witness: the specification's example text has been normalised
C5_Witness ==
    /\ pc = "returned"
    /\ "snippet" \in DOMAIN out
    /\ metadata.examples # <<>>
    /\ metadata.examples[1].description = sFooMapBar
    /\ out.snippet = Str(sFoo)
    /\ out.hasMap

----------------------------------------------------------------------------
(* getParams on declared parameter lists *)

MaxParams == 3
MaxLine == 3

tNumber == [type |-> "NameExpression", name |-> sNumber]
tFeature == [type |-> "NameExpression", name |-> sFeature]
tNumberOrFeature == [type |-> "UnionType", elements |-> <<tNumber, tFeature>>]

\* a description without text, and one whose first paragraph reads "in Feature ."
DescEmpty == [children |-> <<>>]
DescText ==
    [children |-> <<[children |-> <<[value |-> <<"i","n">>],
                                    [children |-> <<[value |-> sFeature]>>,
                                     url |-> <<"#","u">>, jsdoc |-> TRUE],
                                    [value |-> sDot]>>]>>]

ParamChoices ==
    [type : {JSUndefined, tNumberOrFeature},
     description : {DescEmpty, DescText},
     lineNumber : 1..MaxLine]

\* parameters named a, b, c, ... in the order they are declared
NamedParams(cs) == [i \in 1..Len(cs) |-> [name |-> <<LowerLetters[i]>>] @@ cs[i]]

ParamInputs ==
    {[params |-> JSUndefined]}
    \cup {[params |-> Arr(NamedParams(cs))] :
            cs \in UNION {[1..n -> ParamChoices] : n \in 0..MaxParams}}

ParamsInit ==
    /\ pc = "call"
    /\ metadata \in ParamInputs
    /\ out = JSUndefined
    /\ ScriptAtRest

NormalizeParams ==
    /\ pc = "call"
    /\ pc' = "returned"
    /\ \E r \in getParams(metadata) : out' = [params |-> r]
    /\ UNCHANGED metadata
    /\ ScriptUnchanged

ParamsSpec == ParamsInit /\ [][NormalizeParams]_vars

\* the entry the claim gives a typed parameter
IsEntryOf(e, param) ==
    IF param.description.children = <<>> THEN e = JSFalse
    ELSE DOMAIN e = {"Argument", "Type", "Description"} /\ e.Argument = Str(param.name)

\* C6 as stated: getParams returns false when no parameters are declared, and
\* otherwise a list with no entry for an untyped parameter and one entry per typed
\* parameter (a record {Argument, Type, Description}, or false when the description
\* is empty), in ascending order of the parameters' line numbers, without _lineNum.
C6_AsStated ==
    (pc = "returned" /\ "params" \in DOMAIN out) =>
        IF metadata.params = JSUndefined THEN out.params = JSFalse
        ELSE LET ps == metadata.params.a
                 typed == {i \in 1..Len(ps) : ps[i].type # JSUndefined}
                 n == Cardinality(typed)
             IN /\ out.params.t = "arr"
                /\ Len(out.params.a) = n
                /\ \E f \in [1..n -> typed] :
                      /\ \A j, k \in 1..n : j # k => f[j] # f[k]
                      /\ \A j, k \in 1..n : j < k => ps[f[j]].lineNumber <= ps[f[k]].lineNumber
                      /\ \A j \in 1..n : IsEntryOf(out.params.a[j], ps[f[j]])

----------------------------------------------------------------------------
(* getOptions on declared parameter lists *)

MaxProps == 2

sUnits == <<"u","n","i","t","s">>
sOptionsUnits == sOptionsDot \o sUnits
sMyOptionsUnits == <<"m","y",".">> \o sOptionsUnits
sKilometers == <<"k","i","l","o","m","e","t","e","r","s">>
sQuotedKilometers == <<"'">> \o sKilometers \o <<"'">>
sEscapedKm == <<"\\","'","k","m","\\","'">>

PropChoices ==
    [name : {sOptionsUnits, sUnits, sMyOptionsUnits},
     type : {tNumber},
     default : {JSUndefined, Str(<<>>), Str(sQuotedKilometers), Str(sEscapedKm)},
     description : {DescText}]
    \cup {[name |-> sOptionsUnits, type |-> tNumber, default |-> JSUndefined,
           description |-> DescEmpty]}

PropLists == UNION {[1..n -> PropChoices] : n \in 0..MaxProps}

pPlain == [name |-> <<"a">>, type |-> tNumber, description |-> DescText, lineNumber |-> 1]
pBareOptions == [name |-> sOptions, type |-> tNumber, description |-> DescText, lineNumber |-> 2]

OptionsParams == {pBareOptions} \cup {pBareOptions @@ [properties |-> props] : props \in PropLists}

OptionInputs ==
    {[params |-> JSUndefined], [params |-> Arr(<<>>)], [params |-> Arr(<<pPlain>>)]}
    \cup {[params |-> Arr(<<o>>)] : o \in OptionsParams}
    \cup {[params |-> Arr(<<pPlain, o>>)] : o \in OptionsParams}
    \cup {[params |-> Arr(<<o, pBareOptions>>)] : o \in OptionsParams}

OptionsInit ==
    /\ pc = "call"
    /\ metadata \in OptionInputs
    /\ out = JSUndefined
    /\ ScriptAtRest

NormalizeOptions ==
    /\ pc = "call"
    /\ pc' = "returned"
    /\ out' = [options |-> getOptions(metadata)]
    /\ UNCHANGED metadata
    /\ ScriptUnchanged

OptionsSpec == OptionsInit /\ [][NormalizeOptions]_vars

\* the first parameter named "options", 0 when there is none
FirstOptions(ps) ==
    IF \E i \in 1..Len(ps) : ps[i].name = sOptions
    THEN CHOOSE i \in 1..Len(ps) : ps[i].name = sOptions /\ \A j \in 1..(i - 1) : ps[j].name # sOptions
    ELSE 0

StartsWith(s, pre) == OccursAt(s, 1, pre)

Count(s, c) == Cardinality({i \in 1..Len(s) : s[i] = c})

\* s with the character at position i left out
Without(s, i) == SubSeq(s, 1, i - 1) \o SubSeq(s, i + 1, Len(s))

\* C7 as stated: getOptions returns false without declared parameters, null when
\* no parameter is named "options", and otherwise one OptionEntry per documented
\* property, in order, with Prop the name less its "options." prefix and Default
\* the default less one backslash; options.units with default "'kilometers'"
\* yields Prop "units" and Default "kilometers".  Stated of the calls that return.
C7_AsStated ==
    (pc = "returned" /\ "options" \in DOMAIN out /\ out.options # TypeError) =>
        IF metadata.params = JSUndefined THEN out.options = JSFalse
        ELSE LET o == FirstOptions(metadata.params.a)
             IN IF o = 0 THEN out.options = JSNull
                ELSE LET props == IF "properties" \in DOMAIN metadata.params.a[o]
                                  THEN metadata.params.a[o].properties ELSE <<>>
                     IN /\ out.options.t = "arr"
                        /\ Len(out.options.a) = Len(props)
                        /\ \A i \in 1..Len(props) :
                              /\ StartsWith(props[i].name, sOptionsDot) =>
                                    out.options.a[i].Prop
                                      = Str(SubSeq(props[i].name, Len(sOptionsDot) + 1, Len(props[i].name)))
                              /\ (props[i].name = sOptionsUnits /\ props[i].default = Str(sQuotedKilometers)) =>
                                    /\ out.options.a[i].Prop = Str(sUnits)
                                    /\ out.options.a[i].Default = Str(sKilometers)

\* C7 amended: getOptions returns false without declared parameters and null when
\* no parameter is named "options"; it throws a TypeError when the first "options"
\* parameter has no properties list or one of its properties has an empty
\* description; otherwise it returns one OptionEntry per property of the first
\* "options" parameter, in order, with Prop the name less its "options." prefix (a
\* name that does not contain "options." is kept) and Default null for an absent
\* or empty default and else the default less its first backslash, quotes kept:
\* options.units with default "'kilometers'" yields Prop "units" and Default
\* "'kilometers'".
C7_OptionsKeepQuotes ==
    (pc = "returned" /\ "options" \in DOMAIN out) =>
        IF metadata.params = JSUndefined THEN out.options = JSFalse
        ELSE LET o == FirstOptions(metadata.params.a)
             IN IF o = 0 THEN out.options = JSNull
                ELSE IF "properties" \notin DOMAIN metadata.params.a[o] THEN out.options = TypeError
                ELSE LET props == metadata.params.a[o].properties
                     IN IF \E i \in 1..Len(props) : props[i].description.children = <<>>
                        THEN out.options = TypeError
                        ELSE /\ out.options.t = "arr"
                             /\ Len(out.options.a) = Len(props)
                             /\ \A i \in 1..Len(props) :
                                  LET e == out.options.a[i]
                                      name == props[i].name
                                      d == props[i].default
                                  IN /\ DOMAIN e = {"Prop", "Type", "Default", "Description"}
                                     /\ StartsWith(name, sOptionsDot) =>
                                           e.Prop = Str(SubSeq(name, Len(sOptionsDot) + 1, Len(name)))
                                     /\ ~Contains(name, sOptionsDot) => e.Prop = Str(name)
                                     /\ (d = JSUndefined \/ d = Str(<<>>)) => e.Default = JSNull
                                     /\ (d # JSUndefined /\ d # Str(<<>>)) =>
                                           /\ e.Default.t = "str"
                                           /\ Count(d.s, "\\") = 0 => e.Default.s = d.s
                                           /\ Count(d.s, "\\") > 0 =>
                                                \E k \in 1..Len(d.s) :
                                                   /\ d.s[k] = "\\"
                                                   /\ \A j \in 1..(k - 1) : d.s[j] # "\\"
                                                   /\ e.Default.s = Without(d.s, k)
                                     /\ (name = sOptionsUnits /\ d = Str(sQuotedKilometers)) =>
                                           e.Prop = Str(sUnits) /\ e.Default = Str(sQuotedKilometers)

\* C7 witness: options.units with default "'kilometers'" has been normalised
C7_Witness ==
    /\ pc = "returned"
    /\ "options" \in DOMAIN out
    /\ out.options.t = "arr"
    /\ \E i \in 1..Len(out.options.a) :
          /\ metadata.params.a[FirstOptions(metadata.params.a)].properties[i].name = sOptionsUnits
          /\ metadata.params.a[FirstOptions(metadata.params.a)].properties[i].default = Str(sQuotedKilometers)
          /\ out.options.a[i].Prop = Str(sUnits)
          /\ out.options.a[i].Default = Str(sQuotedKilometers)

----------------------------------------------------------------------------
(* Manifest loading: docs.toc.forEach (lines 18-29).                       *)
(* A toc item is a group marker, an object [name |-> s], or a module name, *)
(* the string Str(s).                                                      *)

\* if (tocItem.name): the item has a name and it is not the empty string
HasTruthyName(tocItem) == "name" \in DOMAIN tocItem /\ tocItem.name # <<>>

\* TargetGroup as it would be were the module pushed to the first group
TargetGroupFirst(mods) == 1

\* index of the group a module reference goes to: modules[modules.length - 1]
TargetGroup(mods) == Len(mods)

\* where the script goes once the toc is consumed
AfterToc == IF nPkgs = 0 THEN "await" ELSE "defer"

LoadTocItem ==
    /\ pc = "toc"
    /\ tocIdx < Len(toc)
    /\ LET tocItem == toc[tocIdx + 1]
           next == IF tocIdx + 1 = Len(toc) THEN AfterToc ELSE "toc"
       IN IF HasTruthyName(tocItem)
          THEN /\ modules' = Append(modules, [group |-> tocItem.name, modules |-> <<>>])
               /\ tocIdx' = tocIdx + 1
               /\ pc' = next
          ELSE IF modules = <<>>
          THEN \* modules[-1] is undefined: reading .modules throws, the script ends
               /\ pc' = "crashed"
               /\ UNCHANGED <<modules, tocIdx>>
          ELSE /\ modules' = [modules EXCEPT ![TargetGroup(modules)].modules =
                                 Append(@, [name |-> tocItem, hidden |-> FALSE])]
               /\ tocIdx' = tocIdx + 1
               /\ pc' = next
    /\ UNCHANGED <<toc, paths, nPkgs, deferIdx, q, docsOf, config, writes, metadata, out>>

----------------------------------------------------------------------------
(* Manifest loading on its own, over every toc of bounded length *)

MaxToc == 4

sG == <<"G">>
sH == <<"H">>
TocItems == {[name |-> sG], [name |-> sH], [name |-> <<>>], Str(<<"a">>), Str(<<"b">>)}

TocInputs == UNION {[1..n -> TocItems] : n \in 0..MaxToc}

TocInit ==
    /\ toc \in TocInputs
    /\ pc = IF toc = <<>> THEN "await" ELSE "toc"
    /\ tocIdx = 0
    /\ modules = <<>>
    /\ paths = ManifestPaths
    /\ nPkgs = 0
    /\ deferIdx = 0
    /\ q = QueueInit
    /\ docsOf = <<>>
    /\ config = JSUndefined
    /\ writes = 0
    /\ metadata = JSUndefined
    /\ out = JSUndefined

TocSpec == TocInit /\ [][LoadTocItem]_vars

\* the toc read back off the tree: each group's marker, then its modules' names
RECURSIVE Flatten(_)
Flatten(mods) ==
    IF mods = <<>> THEN <<>>
    ELSE <<[name |-> Head(mods).group]>>
         \o [i \in 1..Len(Head(mods).modules) |-> Head(mods).modules[i].name]
         \o Flatten(Tail(mods))

IsPlaceholder(e) == DOMAIN e = {"name", "hidden"} /\ e.hidden = FALSE

IsString(v) == "t" \in DOMAIN v /\ v.t = "str"

\* C3 as stated: for every toc, once loading is over the tree holds the groups in
\* the order of the group markers and in each group the placeholders of the module
\* names between its marker and the next, in order; nothing lost, doubled or moved.
\* Stated of the tocs made of named group markers and module names.
C3_AsStated ==
    (pc # "toc" /\ \A k \in 1..Len(toc) : IsString(toc[k]) \/ HasTruthyName(toc[k])) =>
        /\ Flatten(modules) = toc
        /\ \A g \in 1..Len(modules) : \A i \in 1..Len(modules[g].modules) :
              IsPlaceholder(modules[g].modules[i]) /\ IsString(modules[g].modules[i].name)

\* C3 amended: for every toc whose first entry is a group marker with a non-empty
\* name (and for the empty toc), loading yields the groups in the order of the
\* markers with non-empty names and in each group the placeholders {name,
\* hidden=false} of the entries between its marker and the next, in order, nothing
\* lost, doubled or moved; the placeholders' names are the module names when every
\* marker has a non-empty name (a marker with an empty name is kept as a
\* placeholder of the group before it).  A toc whose first entry is a module name
\* or a marker with an empty name stops the script with a TypeError before
\* anything is built.
C3_OrderKeptAfterFirstMarker ==
    /\ Flatten(modules) = SubSeq(toc, 1, tocIdx)
    /\ \A g \in 1..Len(modules) : \A i \in 1..Len(modules[g].modules) :
          /\ IsPlaceholder(modules[g].modules[i])
          /\ (\A k \in 1..Len(toc) : IsString(toc[k]) \/ HasTruthyName(toc[k]))
                => IsString(modules[g].modules[i].name)
    /\ (pc # "toc" /\ pc # "crashed") => tocIdx = Len(toc)
    /\ (pc = "crashed") <=> (pc # "toc" /\ toc # <<>> /\ ~HasTruthyName(toc[1]))
    /\ (pc = "crashed") => modules = <<>>

\* C3 witness: a toc of two groups with modules in both has been loaded
C3_Witness ==
    /\ pc = "await"
    /\ Len(toc) = 4
    /\ Len(modules) = 2
    /\ Len(modules[1].modules) = 1
    /\ Len(modules[2].modules) = 1
    /\ modules[1].modules[1].name # modules[2].modules[1].name

----------------------------------------------------------------------------
(* The queue: d3.queue(1), q.defer, the task callback, q.awaitAll.         *)
(* A task is "waiting" (deferred, not started), "building" (started:       *)
(* documentation.build is pending), "formatting" (documentation.formats    *)
(* .json is pending), "done" (its callback was called), "rejected" (an     *)
(* extractor promise rejected, nothing handles it) or "threw" (a then      *)
(* handler threw before calling the callback).                             *)

\* QueueSize as it would be with d3.queue(2)
QueueSizeTwo == 1 + 1

\* the concurrency given to d3.queue
QueueSize == 1

\* MaybeNotify as it would be without the test on the active tasks
MaybeNotifyAnyTime(qq) == qq.call

\* the queue calls the awaitAll callback: nothing is active and one is registered
MaybeNotify(qq) == qq.active = 0 /\ qq.call

\* start(q): the next waiting task is called while a slot is free; the task logs
\* and calls documentation.build
StartNext(qq) ==
    IF qq.waiting > 0 /\ qq.active < QueueSize
    THEN [qq EXCEPT !.tasks[qq.ended + qq.active + 1] = "building",
                    !.waiting = @ - 1,
                    !.active = @ + 1]
    ELSE qq

\* q.defer(task)
Defer(qq) == StartNext([qq EXCEPT !.tasks = Append(@, "waiting"), !.waiting = @ + 1])

\* callback(null) of task i: the task ends, then the next one starts
End(qq, i) ==
    StartNext([qq EXCEPT !.tasks[i] = "done", !.active = @ - 1, !.ended = @ + 1])

InFlight(qq) == {i \in 1..Len(qq.tasks) : qq.tasks[i] \in {"building", "formatting", "rejected", "threw"}}

----------------------------------------------------------------------------
(* The normaliser: docs.forEach (lines 47-61) over one package's metadata  *)

\* pckg.name of the i-th package
PkgName(i) == <<"t","u","r","f","-">> \o <<LowerLetters[i]>>

\* the longest group's length
MaxEntries(mods) ==
    IF mods = <<>> THEN 0
    ELSE CHOOSE n \in {Len(mods[g].modules) : g \in 1..Len(mods)} :
            \A g \in 1..Len(mods) : Len(mods[g].modules) <= n

\* getModuleObj as it would be were the name not compared: the first entry there is
getModuleObjAnyName(mods, moduleName) ==
    IF \E g \in 1..Len(mods) : mods[g].modules # <<>>
    THEN <<CHOOSE g \in 1..Len(mods) :
              mods[g].modules # <<>> /\ \A h \in 1..(g - 1) : mods[h].modules = <<>>, 1>>
    ELSE <<0, 0>>

\* getModuleObj as it would be were the search to go on to the last match
getModuleObjLast(mods, moduleName) ==
    LET hits == {p \in {<<g, i>> : g \in 1..Len(mods), i \in 1..MaxEntries(mods)} :
                    /\ p[2] <= Len(mods[p[1]].modules)
                    /\ mods[p[1]].modules[p[2]].name = Str(moduleName)}
    IN IF hits = {} THEN <<0, 0>>
       ELSE CHOOSE p \in hits : \A r \in hits : p[1] > r[1] \/ (p[1] = r[1] /\ p[2] >= r[2])

\* position <<g, i>> of the entry getModuleObj returns, <<0, 0>> when it returns undefined
getModuleObj(mods, moduleName) ==
    LET hits == {p \in {<<g, i>> : g \in 1..Len(mods), i \in 1..MaxEntries(mods)} :
                    /\ p[2] <= Len(mods[p[1]].modules)
                    /\ mods[p[1]].modules[p[2]].name = Str(moduleName)}
    IN IF hits = {} THEN <<0, 0>>
       ELSE CHOOSE p \in hits : \A r \in hits : p[1] < r[1] \/ (p[1] = r[1] /\ p[2] <= r[2])

\* the fields lines 50-59 assign, in order, up to the first call that throws
FieldsAssigned(md, parent, npmName) ==
    LET f1 == [parent |-> parent]
        description == getDescription(md)
        f2 == [description |-> description,
               snippet |-> getSnippet(md),
               example |-> getExample(md),
               hasMap |-> hasMap(md),
               npmName |-> npmName,
               returns |-> getReturns(md)] @@ f1
        options == getOptions(md)
    IN IF description = TypeError THEN {[fields |-> f1, threw |-> TRUE]}
       ELSE {IF options = TypeError
             THEN [fields |-> [params |-> ps] @@ f2, threw |-> TRUE]
             ELSE [fields |-> [params |-> ps, options |-> options, throws |-> getThrows(md)] @@ f2,
                   threw |-> FALSE] : ps \in getParams(md)}

\* the trees docs.forEach can leave from metadata k on, each with whether it threw
RECURSIVE Normalize(_, _, _, _)
Normalize(mods, docs, k, i) ==
    IF k > Len(docs) THEN {[modules |-> mods, threw |-> FALSE]}
    ELSE LET at == getModuleObj(mods, docs[k].name)
             parent == IF Len(docs) > 1 THEN Str(PkgName(i)) ELSE JSNull
         IN IF at = <<0, 0>> THEN Normalize(mods, docs, k + 1, i)
            ELSE UNION {
                   LET filled == [mods EXCEPT ![at[1]].modules[at[2]] = r.fields @@ @]
                   IN IF r.threw THEN {[modules |-> filled, threw |-> TRUE]}
                      ELSE Normalize(filled, docs, k + 1, i)
                   : r \in FieldsAssigned(docs[k], parent, Str(PkgName(i)))}

----------------------------------------------------------------------------
(* The script: manifest, packagesPath.forEach, q.awaitAll, the paths in    *)
(* upper case, then the promise handlers of the running task               *)

MaxPipelineToc == 3
MaxPkgs == 2
MaxDocs == 2

sA == <<"a">>
sB == <<"b">>

PipelineTocs == UNION {[1..n -> {[name |-> sG], Str(sA), Str(sB)}] : n \in 0..MaxPipelineToc}

pOptions == pBareOptions @@
    [properties |-> <<[name |-> sOptionsUnits, type |-> tNumber,
                       default |-> Str(sQuotedKilometers), description |-> DescText]>>]

\* a symbol documented in full, and one without a description
mdFull(name) ==
    [name |-> name,
     description |-> DescText,
     examples |-> <<[description |-> sFooMapBar]>>,
     returns |-> Arr(<<[type |-> tFeature, description |-> DescText]>>),
     params |-> Arr(<<pPlain, pOptions>>),
     throws |-> JSUndefined]

mdNoDescription(name) ==
    [name |-> name,
     description |-> DescEmpty,
     examples |-> <<>>,
     returns |-> JSUndefined,
     params |-> JSUndefined,
     throws |-> JSUndefined]

DocChoices == {mdFull(sA), mdNoDescription(sB)}

DocLists == UNION {[1..n -> DocChoices] : n \in 0..MaxDocs}

Init ==
    /\ toc \in PipelineTocs
    /\ nPkgs \in 0..MaxPkgs
    /\ pc = IF toc = <<>> THEN AfterToc ELSE "toc"
    /\ tocIdx = 0
    /\ modules = <<>>
    /\ paths = ManifestPaths
    /\ deferIdx = 0
    /\ q = QueueInit
    /\ docsOf = [i \in 1..nPkgs |-> JSUndefined]
    /\ config = JSUndefined
    /\ writes = 0
    /\ metadata = JSUndefined
    /\ out = JSUndefined

\* packagesPath.forEach: q.defer of the package's task; the first one starts at once
DeferPackage ==
    /\ pc = "defer"
    /\ deferIdx < nPkgs
    /\ q' = Defer(q)
    /\ deferIdx' = deferIdx + 1
    /\ pc' = IF deferIdx + 1 = nPkgs THEN "await" ELSE "defer"
    /\ UNCHANGED <<toc, tocIdx, modules, paths, nPkgs, docsOf, config, writes, metadata, out>>

\* q.awaitAll(callback): with no task at all the callback runs here and writes
AwaitAll ==
    /\ pc = "await"
    /\ q' = [q EXCEPT !.call = TRUE]
    /\ IF MaybeNotify(q')
       THEN config' = [modules |-> modules] /\ writes' = writes + 1
       ELSE UNCHANGED <<config, writes>>
    /\ pc' = "paths"
    /\ UNCHANGED <<toc, tocIdx, modules, paths, nPkgs, deferIdx, docsOf, metadata, out>>

\* lines 213-215
UpperCasePaths ==
    /\ pc = "paths"
    /\ paths' = UpperPaths(paths)
    /\ pc' = "loop"
    /\ UNCHANGED <<toc, tocIdx, modules, nPkgs, deferIdx, q, docsOf, config, writes, metadata, out>>

\* documentation.build resolves: an undefined result ends in console.warning, which
\* is no function, so the handler throws; any other goes to documentation.formats.json
BuildResolved(i) ==
    /\ pc = "loop"
    /\ q.tasks[i] = "building"
    /\ \E defined \in BOOLEAN :
          q' = [q EXCEPT !.tasks[i] = IF defined THEN "formatting" ELSE "threw"]
    /\ UNCHANGED <<pc, toc, tocIdx, modules, paths, nPkgs, deferIdx, docsOf, config, writes, metadata, out>>

\* documentation.build rejects: no handler, the callback is never called
BuildRejected(i) ==
    /\ pc = "loop"
    /\ q.tasks[i] = "building"
    /\ q' = [q EXCEPT !.tasks[i] = "rejected"]
    /\ UNCHANGED <<pc, toc, tocIdx, modules, paths, nPkgs, deferIdx, docsOf, config, writes, metadata, out>>

\* documentation.formats.json resolves: the metadata is normalised into the tree,
\* then callback(null) ends the task, which starts the next one or, after the
\* last one, runs the awaitAll callback
JsonResolved(i) ==
    /\ pc = "loop"
    /\ q.tasks[i] = "formatting"
    /\ \E docs \in DocLists : \E r \in Normalize(modules, docs, 1, i) :
          /\ docsOf' = [docsOf EXCEPT ![i] = Arr(docs)]
          /\ modules' = r.modules
          /\ IF r.threw
             THEN /\ q' = [q EXCEPT !.tasks[i] = "threw"]
                  /\ UNCHANGED <<config, writes>>
             ELSE /\ q' = End(q, i)
                  /\ IF q.waiting = 0 /\ MaybeNotify(q')
                     THEN config' = [modules |-> modules'] /\ writes' = writes + 1
                     ELSE UNCHANGED <<config, writes>>
    /\ UNCHANGED <<pc, toc, tocIdx, paths, nPkgs, deferIdx, metadata, out>>

\* JsonRejected as it would be were the rejection caught and the task acknowledged
JsonRejectedAcknowledged(i) ==
    /\ pc = "loop"
    /\ q.tasks[i] = "formatting"
    /\ q' = [End(q, i) EXCEPT !.tasks[i] = "rejected"]
    /\ IF q.waiting = 0 /\ MaybeNotify(q')
       THEN config' = [modules |-> modules] /\ writes' = writes + 1
       ELSE UNCHANGED <<config, writes>>
    /\ UNCHANGED <<pc, toc, tocIdx, modules, paths, nPkgs, deferIdx, docsOf, metadata, out>>

\* documentation.formats.json rejects: no handler, the callback is never called
JsonRejected(i) ==
    /\ pc = "loop"
    /\ q.tasks[i] = "formatting"
    /\ q' = [q EXCEPT !.tasks[i] = "rejected"]
    /\ UNCHANGED <<pc, toc, tocIdx, modules, paths, nPkgs, deferIdx, docsOf, config, writes, metadata, out>>

Next ==
    \/ LoadTocItem
    \/ DeferPackage
    \/ AwaitAll
    \/ UpperCasePaths
    \/ \E i \in 1..nPkgs : BuildResolved(i)
    \/ \E i \in 1..nPkgs : BuildRejected(i)
    \/ \E i \in 1..nPkgs : JsonResolved(i)
    \/ \E i \in 1..nPkgs : JsonRejected(i)

Spec == Init /\ [][Next]_vars

----------------------------------------------------------------------------
(* Claims about the run of the script *)

AllDone == Len(q.tasks) = nPkgs /\ \A i \in 1..nPkgs : q.tasks[i] = "done"

\* positions of the tree's entries
Positions(mods) == {p \in {<<g, i>> : g \in 1..Len(mods), i \in 1..MaxEntries(mods)} :
                       p[2] <= Len(mods[p[1]].modules)}

EntryAt(mods, p) == mods[p[1]].modules[p[2]]

IsFilled(e) == "npmName" \in DOMAIN e

\* the packages whose metadata has arrived
Parsed == {i \in 1..nPkgs : docsOf[i] # JSUndefined}

\* package i's metadata has a symbol of this name
Documents(i, name) == \E k \in 1..Len(docsOf[i].a) : Str(docsOf[i].a[k].name) = name

\* C1: write.sync is called at most once, and only when every package has been
\* extracted, normalised and acknowledged to the queue; what is written is the
\* tree as it then is.
C1_WriteOnceAfterAll ==
    /\ writes <= 1
    /\ (writes = 0) <=> (config = JSUndefined)
    /\ writes = 1 =>
          /\ deferIdx = nPkgs
          /\ AllDone
          /\ InFlight(q) = {}
          /\ Parsed = 1..nPkgs
          /\ config = [modules |-> modules]

\* C1 witness: the file is written after two packages, one of which filled an entry
C1_Witness ==
    /\ writes = 1
    /\ nPkgs = 2
    /\ AllDone
    /\ \E p \in Positions(modules) : IsFilled(EntryAt(modules, p))

\* C2 as stated, in the form a finite run refutes: when the script has come to rest
\* (no extractor promise is pending) and no extractor call has rejected, whatever
\* the extractor resolved with, the Writer has been invoked.
C2_AsStated ==
    (/\ pc = "loop"
     /\ \A i \in 1..nPkgs : q.tasks[i] \notin {"building", "formatting", "rejected"})
        => writes = 1

\* every entry no parsed metadata names is the bare placeholder
UnmatchedArePlaceholders(mods) ==
    \A p \in Positions(mods) :
        (\A i \in Parsed : ~Documents(i, EntryAt(mods, p).name)) => IsPlaceholder(EntryAt(mods, p))

UnmatchedStayPlaceholders ==
    /\ UnmatchedArePlaceholders(modules)
    /\ writes > 0 => UnmatchedArePlaceholders(config.modules)

\* C4: an entry whose name no metadata symbol of a processed package bears is, all
\* along and in the file written, exactly {name, hidden = false}; a package whose
\* metadata names no entry leaves the tree as it was.
C4_UnmatchedStayEmpty ==
    [][/\ UnmatchedStayPlaceholders'
       /\ \A i \in 1..nPkgs :
            (/\ docsOf[i] = JSUndefined
             /\ docsOf'[i] # JSUndefined
             /\ \A p \in Positions(modules) : ~Documents(i, EntryAt(modules, p).name)')
               => modules' = modules]_vars

\* C4 witness: the file is written with an entry no metadata named, after a package
\* brought metadata that named no entry
C4_Witness ==
    /\ writes = 1
    /\ \E p \in Positions(config.modules) :
          /\ \A i \in Parsed : ~Documents(i, EntryAt(config.modules, p).name)
          /\ IsPlaceholder(EntryAt(config.modules, p))
    /\ \E i \in Parsed :
          /\ docsOf[i].a # <<>>
          /\ \A p \in Positions(modules) : ~Documents(i, EntryAt(modules, p).name)

\* tasks start in order, each after the one before it is done, one at a time
OneAtATime ==
    /\ Cardinality(InFlight(q)) <= 1
    /\ \A i \in 1..Len(q.tasks) :
          q.tasks[i] # "waiting" => \A j \in 1..(i - 1) : q.tasks[j] = "done"

\* C8: at most one package is in flight; the extractor call of a package starts
\* only after the package before it is normalised and acknowledged; the tree
\* changes only in the handler of the one package in flight.
C8_OneInFlight ==
    [][/\ OneAtATime'
       /\ (pc = "loop" /\ modules' # modules) =>
             \E i \in 1..nPkgs :
                /\ InFlight(q) = {i}
                /\ q.tasks[i] = "formatting"
                /\ docsOf[i] = JSUndefined /\ docsOf'[i] # JSUndefined
                /\ \A j \in 1..nPkgs : j # i => docsOf'[j] = docsOf[j]]_vars

\* C8 witness: the second package is being extracted, the first is done and filled
C8_Witness ==
    /\ nPkgs = 2
    /\ q.tasks = <<"done", "building">>
    /\ \E p \in Positions(modules) : IsFilled(EntryAt(modules, p))

Rejected == {i \in 1..Len(q.tasks) : q.tasks[i] = "rejected"}

\* C9: once an extractor call has rejected, no later package is started and the
\* Writer is never invoked: the queue, the tree and the file stay as they are.
C9_RejectionStopsRun ==
    [][/\ \A i \in Rejected' :
             /\ writes' = 0
             /\ config' = JSUndefined
             /\ \A j \in (i + 1)..Len(q'.tasks) : q'.tasks[j] = "waiting"
       /\ Rejected # {} => UNCHANGED <<q, modules, config, writes>>]_vars

\* C9 witness: the second extractor call rejected after the first package filled an
\* entry; nothing is written
C9_Witness ==
    /\ nPkgs = 2
    /\ q.tasks = <<"done", "rejected">>
    /\ writes = 0
    /\ \E p \in Positions(modules) : IsFilled(EntryAt(modules, p))

\* C10 as stated: an entry the Normalizer has filled in is never changed again, its
\* name and hidden never change, and no entry or group is removed.
C10_AsStated ==
    [][\A g \in 1..Len(modules) :
          /\ g <= Len(modules')
          /\ \A j \in 1..Len(modules[g].modules) :
                /\ j <= Len(modules'[g].modules)
                /\ modules'[g].modules[j].name = modules[g].modules[j].name
                /\ modules'[g].modules[j].hidden = modules[g].modules[j].hidden
                /\ IsFilled(modules[g].modules[j]) =>
                      modules'[g].modules[j] = modules[g].modules[j]]_vars

\* the first entry of the tree with the name of the entry at p
IsFirstOfName(mods, p) ==
    \A r \in Positions(mods) :
        EntryAt(mods, r).name = EntryAt(mods, p).name =>
            (p[1] < r[1] \/ (p[1] = r[1] /\ p[2] <= r[2]))

\* the last parsed package that documents this name, 0 if none does
LastDocumenting(name) ==
    IF \E i \in Parsed : Documents(i, name)
    THEN CHOOSE i \in Parsed : Documents(i, name) /\ \A j \in Parsed : Documents(j, name) => j <= i
    ELSE 0

\* in the file written, the first entry of each name bears the fields of the last
\* package that documents the name, every other entry is the bare placeholder
LastMetadataWins ==
    writes = 1 =>
        \A p \in Positions(config.modules) :
            LET e == EntryAt(config.modules, p)
                i == LastDocumenting(e.name)
            IN IF i # 0 /\ IsFirstOfName(config.modules, p)
               THEN /\ IsFilled(e)
                    /\ e.npmName = Str(PkgName(i))
                    /\ e.parent = IF Len(docsOf[i].a) > 1 THEN Str(PkgName(i)) ELSE JSNull
               ELSE IsPlaceholder(e)

\* C10 amended: a ModuleEntry is filled in by the Normalizer once for every metadata
\* entry that bears its name, a later one (of the same or of another package)
\* overwriting the fields an earlier one set, so that the file shows the fields of
\* the last package documenting the name; only the first entry of a name is ever
\* filled, and only by a package whose metadata bears that name; name and hidden
\* never change and no entry or group is ever removed.
C10_LastMetadataWins ==
    [][/\ LastMetadataWins'
       /\ \A g \in 1..Len(modules) :
            /\ g <= Len(modules')
            /\ modules'[g].group = modules[g].group
            /\ \A j \in 1..Len(modules[g].modules) :
                  /\ j <= Len(modules'[g].modules)
                  /\ modules'[g].modules[j].name = modules[g].modules[j].name
                  /\ modules'[g].modules[j].hidden = modules[g].modules[j].hidden
                  /\ modules'[g].modules[j] # modules[g].modules[j] =>
                        /\ IsFirstOfName(modules, <<g, j>>)
                        /\ \E i \in 1..nPkgs :
                              /\ q.tasks[i] = "formatting"
                              /\ docsOf'[i] # JSUndefined
                              /\ Documents(i, modules[g].modules[j].name)']_vars

\* C10 witness: two packages documented the same name, the file shows the second
C10_Witness ==
    /\ writes = 1
    /\ nPkgs = 2
    /\ \E p \in Positions(config.modules) :
          /\ Documents(1, EntryAt(config.modules, p).name)
          /\ Documents(2, EntryAt(config.modules, p).name)
          /\ IsFilled(EntryAt(config.modules, p))
          /\ EntryAt(config.modules, p).npmName = Str(PkgName(2))

====
